---- MODULE Spec2Model ----
(***************************************************************************)
(* Over-the-air update engine of quasar_dependencies:                      *)
(*   src/src/composables/updater.ts             (Updater, the coordinator) *)
(*   src/src/composables/web_assets_updater.ts  (assetsUpdater)            *)
(*   src/src/composables/apk_updater.ts         (ApkUpdater)               *)
(*                                                                         *)
(* A version string is a tuple of one-character strings, so that split()   *)
(* and Number() are computed the way the code computes them.  One step of  *)
(* the model is one JavaScript task: the code from the completion of a     *)
(* native/network/user event up to the next await on such an event.        *)
(***************************************************************************)
EXTENDS Integers, Sequences, FiniteSets, Bags, TLC

(***************************************************************************)
(* Bounds of the model.                                                    *)
(***************************************************************************)
\* concurrent checkForUpdates() invocations tracked at the same time
MaxCycles == 2
\* digits 0..MaxDigit occur in the inputs of the comparator specification
MaxDigit == 2
\* setInterval timers armed at the same time, in the specification in which
\* initialize() is called again
MaxTimers == 2

(***************************************************************************)
(* Version strings and the comparator, updater.ts:128-154.                 *)
(***************************************************************************)
DigitChars == <<"0", "1", "2", "3", "4", "5", "6", "7", "8", "9">>

IsDigit(ch) == \E i \in DOMAIN DigitChars : DigitChars[i] = ch

DigitValue(ch) == (CHOOSE i \in DOMAIN DigitChars : DigitChars[i] = ch) - 1

\* localStorage.getItem() of a missing key gives null; the code only ever
\* tests it for truthiness, where null and "" behave alike.
Absent == <<>>

Falsy(s) == s = <<>>

\* String.prototype.split('.') : the tuple of the components of s
RECURSIVE splitFrom(_, _, _, _)
splitFrom(s, i, cur, acc) ==
  IF i > Len(s) THEN Append(acc, cur)
  ELSE IF s[i] = "." THEN splitFrom(s, i + 1, <<>>, Append(acc, cur))
  ELSE splitFrom(s, i + 1, Append(cur, s[i]), acc)

split(s) == splitFrom(s, 1, <<>>, <<>>)

RECURSIVE DecimalValue(_)
DecimalValue(t) ==
  IF t = <<>> THEN 0
  ELSE 10 * DecimalValue(SubSeq(t, 1, Len(t) - 1)) + DigitValue(t[Len(t)])

\* Number(t) for a string over digits and letters: "" is 0, a digit string is
\* its decimal value (leading zeros allowed), anything else is NaN.
NumberOf(t) ==
  IF \A i \in DOMAIN t : IsDigit(t[i])
    THEN [kind |-> "num", val |-> DecimalValue(t)]
    ELSE [kind |-> "NaN", val |-> 0]

\* parts[i] of split('.').map(Number); an index past the end is undefined
partAt(parts, i) ==
  IF i + 1 <= Len(parts) THEN NumberOf(parts[i + 1])
  ELSE [kind |-> "undefined", val |-> 0]

\* faulty variant of jsGreater: >= written for >
jsGreaterOrEqual(x, y) == x.kind = "num" /\ y.kind = "num" /\ x.val >= y.val

\* x > y on numbers: false as soon as one side is NaN or undefined
jsGreater(x, y) == x.kind = "num" /\ y.kind = "num" /\ x.val > y.val

RECURSIVE compareFrom(_, _, _)
compareFrom(remoteParts, localParts, i) ==
  IF i >= 3 THEN FALSE
  ELSE IF jsGreater(partAt(remoteParts, i), partAt(localParts, i)) THEN TRUE
  ELSE IF jsGreater(partAt(localParts, i), partAt(remoteParts, i)) THEN FALSE
  ELSE compareFrom(remoteParts, localParts, i + 1)

\* faulty variant of isNewerVersion: the two arguments taken in the wrong order
isNewerVersionSwapped(remote, local) ==
  IF Falsy(remote) \/ Falsy(local) THEN FALSE
  ELSE compareFrom(split(local), split(remote), 0)

isNewerVersion(remote, local) ==
  IF Falsy(remote) \/ Falsy(local) THEN FALSE
  ELSE compareFrom(split(remote), split(local), 0)

(***************************************************************************)
(* Persisted key-value store (localStorage) and its accessors.             *)
(***************************************************************************)
StorageKeys == {"apkVersion", "assetsVersion", "appVersion"}

\* process.env.APP_VERSION || '1.0.0'
Baseline == <<"1", ".", "0", ".", "0">>

\* faulty variant of versionKey: one key for both update types
versionKeyShared(updateType) == "assetsVersion"

\* the key Updater uses for an update type, updater.ts:157-158 and 186-187
versionKey(updateType) ==
  IF updateType = "apk" THEN "apkVersion" ELSE "assetsVersion"

\* faulty variant of initializeVersions: nothing is bootstrapped
initializeVersionsSkipped(ls) == ls

\* Updater.initializeVersions
initializeVersions(ls) ==
  LET ls1 == IF Falsy(ls["apkVersion"])
               THEN [ls EXCEPT !["apkVersion"] = Baseline] ELSE ls
  IN  IF Falsy(ls1["assetsVersion"])
        THEN [ls1 EXCEPT !["assetsVersion"] = Baseline] ELSE ls1

\* faulty variant of getLocalVersion: an absent record of the other update
\* type is bootstrapped as well
getLocalVersionBootstrapsAll(ls, updateType) ==
  LET key == versionKey(updateType)
  IN  IF Falsy(ls[key])
        THEN [version |-> Baseline, storage |-> initializeVersions(ls)]
        ELSE [version |-> ls[key], storage |-> initializeVersions(ls)]

\* Updater.getLocalVersion: the version returned, and the store it leaves
getLocalVersion(ls, updateType) ==
  LET key == versionKey(updateType)
  IN  IF Falsy(ls[key])
        THEN [version |-> Baseline, storage |-> [ls EXCEPT ![key] = Baseline]]
        ELSE [version |-> ls[key], storage |-> ls]

\* faulty variant of updateLocalVersion: the key of the other update type
updateLocalVersionCrossed(ls, updateType, newVersion) ==
  [ls EXCEPT ![versionKey(IF updateType = "apk" THEN "assets" ELSE "apk")] =
               newVersion]

\* Updater.updateLocalVersion
updateLocalVersion(ls, updateType, newVersion) ==
  [ls EXCEPT ![versionKey(updateType)] = newVersion]

\* assetsUpdater.getLocalVersion
assetsGetLocalVersion(ls) ==
  IF ~Falsy(ls["appVersion"]) THEN ls["appVersion"] ELSE Baseline

\* assetsUpdater.setLocalVersion
assetsSetLocalVersion(ls, version) == [ls EXCEPT !["appVersion"] = version]

(***************************************************************************)
(* Remote descriptors and responses of fetchUpdateInfo().                  *)
(***************************************************************************)
\* a descriptor of the remote endpoint (UpdateInfo, updater.model.ts:6-13);
\* the fields the engine only passes on are told apart by their values
UpdateInfo(version, updateType) ==
  [version |-> version, updateType |-> updateType,
   url |-> <<"url", updateType>> \o version,
   web_assets_url |-> <<"web_assets_url", updateType>> \o version,
   notes |-> <<"notes", updateType>> \o version,
   sessionKey |-> <<"sessionKey", updateType>> \o version]

\* the descriptors the remote endpoint serves: the baseline and one newer
\* version for the package, the baseline and two newer versions for the bundle
UpdateInfos ==
  {UpdateInfo(Baseline, "apk"),
   UpdateInfo(<<"1", ".", "0", ".", "1">>, "apk"),
   UpdateInfo(Baseline, "assets"),
   UpdateInfo(<<"1", ".", "0", ".", "1">>, "assets"),
   UpdateInfo(<<"1", ".", "0", ".", "2">>, "assets")}

\* null where a descriptor is expected
NoInfo ==
  [version |-> Absent, updateType |-> "none", url |-> Absent,
   web_assets_url |-> Absent, notes |-> Absent, sessionKey |-> Absent]

\* what the awaited request gives: a rejection, or a response whose data is
\* missing, one descriptor, or an array of descriptors (possibly empty)
Responses ==
  {[kind |-> "error", items |-> <<>>], [kind |-> "nodata", items |-> <<>>],
   [kind |-> "array", items |-> <<>>]}
  \cup {[kind |-> "object", items |-> <<d>>] : d \in UpdateInfos}
  \cup {[kind |-> "array", items |-> <<d>>] : d \in UpdateInfos}

\* faulty variant of narrowed: the last element of an array is taken
narrowedToLast(resp) == resp.items[Len(resp.items)]

\* response.data narrowed to one descriptor, updater.ts:95-97: the first
\* element of an array, the object itself otherwise
narrowed(resp) == resp.items[1]

\* the request rejects (or data[0] of an empty array is read) and the catch
\* of updater.ts:122-125 runs, or response.data is missing, updater.ts:89-92
requestThrew(resp) ==
  resp.kind = "error" \/ (resp.kind = "array" /\ resp.items = <<>>)

dataMissing(resp) == resp.kind = "nodata"

\* checkForNewVersion from the descriptor on, updater.ts:100-121
compared(ls, updateInfo) ==
  LET got == getLocalVersion(ls, updateInfo.updateType)
  IN  IF isNewerVersion(updateInfo.version, got.version)
        THEN [info |-> [version |-> updateInfo.version,
                        updateType |-> updateInfo.updateType,
                        url |-> updateInfo.url,
                        web_assets_url |-> updateInfo.web_assets_url,
                        notes |-> updateInfo.notes,
                        sessionKey |-> updateInfo.sessionKey],
              local |-> got.version, storage |-> got.storage]
        ELSE [info |-> NoInfo, local |-> got.version, storage |-> got.storage]

\* faulty variant of checkForNewVersion: a request that failed is answered
\* with a descriptor instead of null
checkForNewVersionAnswersFailure(ls, resp) ==
  IF requestThrew(resp) \/ dataMissing(resp)
    THEN [info |-> UpdateInfo(<<"1", ".", "0", ".", "1">>, "assets"),
          local |-> Baseline, storage |-> ls]
    ELSE compared(ls, narrowed(resp))

\* Updater.checkForNewVersion after the request has settled: the descriptor
\* returned (NoInfo for null), the local version it read, the store it leaves
checkForNewVersion(ls, resp) ==
  IF requestThrew(resp) \/ dataMissing(resp)
    THEN [info |-> NoInfo, local |-> Absent, storage |-> ls]
    ELSE compared(ls, narrowed(resp))

\* the line checkForNewVersion leaves on the console
checkTrail(resp, info) ==
  IF requestThrew(resp) THEN "checkFailed"
  ELSE IF dataMissing(resp) THEN "noData"
  ELSE IF info # NoInfo THEN "updateFound"
  ELSE "noUpdate"

(***************************************************************************)
(* State.                                                                  *)
(***************************************************************************)
VARIABLES
  platform,         \* Capacitor.getPlatform()
  localStorage,     \* the persisted key-value store
  activeBundle,     \* version of the bundle the bundle-delivery plugin serves
  previousVersion,  \* assetsUpdater.previousVersion
  initPc,           \* position of Updater.initialize()
  timers,           \* number of setInterval timers armed
  cycles,           \* the checkForUpdates() invocations in flight, a bag
  last,             \* the step taken last (the console trail of the code)
  cmpRemote,        \* comparator specification: the remote argument
  cmpLocal,         \* comparator specification: the local argument
  cmpResult,        \* comparator specification: what isNewerVersion returned
  probe             \* store and checker specifications: the call made last

vars == <<platform, localStorage, activeBundle, previousVersion, initPc,
          timers, cycles, last, cmpRemote, cmpLocal, cmpResult, probe>>

\* the variables of the specifications of single components
cmpVars == <<cmpRemote, cmpLocal, cmpResult, probe>>

engineVars == <<platform, localStorage, activeBundle, previousVersion, initPc,
                timers, cycles, last>>

\* start: the local version checkForNewVersion read for the descriptor;
\* reverts, restarts: calls of CapacitorUpdater.reset and dialogs created
\* whose Ok reloads the page, made for this cycle; file: fileInfo.uri of
\* ApkUpdater.performUpdate, absent while fileInfo is null
NoCycle ==
  [pc |-> "none", info |-> NoInfo, start |-> Absent,
   reverts |-> 0, restarts |-> 0, file |-> Absent]

NoStep == [op |-> "none", cyc |-> NoCycle]

NoProbe == [op |-> "none"]

InFlight == BagToSet(cycles)

add(cs, cyc) == cs (+) SetToBag({cyc})

remove(cs, cyc) == cs (-) SetToBag({cyc})

replace(cs, old, new) == add(remove(cs, old), new)

isAndroidApp == platform = "android"

EngineInit ==
  /\ platform \in {"android", "web"}
  /\ localStorage = [k \in StorageKeys |-> Absent]
  /\ activeBundle = Baseline
  /\ previousVersion = Absent
  /\ initPc = "created"
  /\ timers = 0
  /\ cycles = EmptyBag
  /\ last = NoStep

CmpIdle ==
  /\ cmpRemote = Baseline
  /\ cmpLocal = Baseline
  /\ cmpResult = "unset"
  /\ probe = NoProbe

Init == EngineInit /\ CmpIdle

(***************************************************************************)
(* Updater.initialize and the periodic check, updater.ts:21-82.            *)
(***************************************************************************)
\* checkForUpdates() up to its await of fetchUpdateInfo()
startCheck(cs) == add(cs, [NoCycle EXCEPT !.pc = "fetching"])

\* initialize() up to its await of notifyAppReady()
Initialize ==
  /\ initPc = "created"
  /\ IF ~isAndroidApp
       THEN /\ initPc' = "disabled"
            /\ UNCHANGED localStorage
       ELSE /\ initPc' = "notifying"
            /\ localStorage' = initializeVersions(localStorage)
  /\ last' = [op |-> "initialize", cyc |-> NoCycle]
  /\ UNCHANGED <<platform, activeBundle, previousVersion, timers, cycles>>
  /\ UNCHANGED cmpVars

\* notifyAppReady() settles: initialize() goes on to await checkForUpdates(),
\* or rejects to its caller
NotifyAppReadyDone(ok) ==
  /\ initPc = "notifying"
  /\ IF ok
       THEN /\ initPc' = "firstCheck"
            /\ cycles' = startCheck(cycles)
       ELSE /\ initPc' = "failed"
            /\ UNCHANGED cycles
  /\ last' = [op |-> IF ok THEN "notifyAppReady" ELSE "initializeRejected",
              cyc |-> NoCycle]
  /\ UNCHANGED <<platform, localStorage, activeBundle, previousVersion, timers>>
  /\ UNCHANGED cmpVars

\* a setInterval timer fires: checkForUpdates() up to its await
TimerTick ==
  /\ timers > 0
  /\ isAndroidApp
  /\ BagCardinality(cycles) < MaxCycles
  /\ cycles' = startCheck(cycles)
  /\ last' = [op |-> "timerTick", cyc |-> NoCycle]
  /\ UNCHANGED <<platform, localStorage, activeBundle, previousVersion, initPc,
                 timers>>
  /\ UNCHANGED cmpVars

\* faulty variant of FetchDone: a request that threw clears the timer
FetchDoneFailureStopsTimer(c, resp) ==
  /\ c.pc = "fetching"
  /\ LET r == checkForNewVersion(localStorage, resp)
         cyc == IF r.info # NoInfo /\ isAndroidApp
                  THEN [c EXCEPT !.pc = "prompt", !.info = r.info,
                                 !.start = r.local]
                  ELSE NoCycle
     IN  /\ localStorage' = r.storage
         /\ cycles' = IF cyc = NoCycle THEN remove(cycles, c)
                      ELSE replace(cycles, c, cyc)
         /\ last' = [op |-> checkTrail(resp, r.info), cyc |-> cyc]
  /\ IF requestThrew(resp)
       THEN initPc' = "running" /\ timers' = 0
       ELSE IF initPc = "firstCheck"
         THEN initPc' = "running" /\ timers' = timers + 1
         ELSE UNCHANGED <<initPc, timers>>
  /\ UNCHANGED <<platform, activeBundle, previousVersion>>
  /\ UNCHANGED cmpVars

\* fetchUpdateInfo() settles for the check in slot c: the rest of
\* checkForNewVersion and checkForUpdates, promptForUpdate up to the dialog,
\* and, for the check initialize() awaits, the setInterval call
FetchDone(c, resp) ==
  /\ c.pc = "fetching"
  /\ LET r == checkForNewVersion(localStorage, resp)
         cyc == IF r.info # NoInfo /\ isAndroidApp
                  THEN [c EXCEPT !.pc = "prompt", !.info = r.info,
                                 !.start = r.local]
                  ELSE NoCycle
     IN  /\ localStorage' = r.storage
         /\ cycles' = IF cyc = NoCycle THEN remove(cycles, c)
                      ELSE replace(cycles, c, cyc)
         /\ last' = [op |-> checkTrail(resp, r.info), cyc |-> cyc]
  /\ IF initPc = "firstCheck"
       THEN initPc' = "running" /\ timers' = timers + 1
       ELSE UNCHANGED <<initPc, timers>>
  /\ UNCHANGED <<platform, activeBundle, previousVersion>>
  /\ UNCHANGED cmpVars

(***************************************************************************)
(* The consent dialog of promptForUpdate, updater.ts:204-234.              *)
(***************************************************************************)
\* faulty variant of onOkAfterPerformUpdate: the version is not recorded
onOkWithoutVersionWrite(ls, info) == ls

\* onOk after the applier's performUpdate() has resolved, updater.ts:218-222.
\* Both performUpdate() catch every error, so this is reached on every
\* path and the catch of updater.ts:223-230 on none.
onOkAfterPerformUpdate(ls, info) ==
  updateLocalVersion(ls, info.updateType, info.version)

\* faulty variant of onOkStarted: the appliers taken for each other
onOkStartedSwapped(cyc) ==
  [cyc EXCEPT !.pc = IF cyc.info.updateType = "apk"
                       THEN "assetDownloading" ELSE "apkDownloading"]

\* onOk: the applier chosen by updateType, up to its first await
onOkStarted(cyc) ==
  [cyc EXCEPT !.pc = IF cyc.info.updateType = "apk"
                       THEN "apkDownloading" ELSE "assetDownloading"]

UserAccept(c) ==
  /\ c.pc = "prompt"
  /\ isAndroidApp
  /\ cycles' = replace(cycles, c, onOkStarted(c))
  /\ last' = [op |-> "accepted", cyc |-> onOkStarted(c)]
  /\ UNCHANGED <<platform, localStorage, activeBundle, previousVersion, initPc,
                 timers>>
  /\ UNCHANGED cmpVars

\* faulty variant of onCancel: the declined version is recorded all the same
onCancelRecordsVersion(c) ==
  /\ cycles' = remove(cycles, c)
  /\ localStorage' = updateLocalVersion(localStorage, c.info.updateType,
                                        c.info.version)
  /\ UNCHANGED <<platform, activeBundle, previousVersion, initPc, timers>>

\* onCancel
onCancel(c) ==
  /\ cycles' = remove(cycles, c)
  /\ UNCHANGED <<platform, localStorage, activeBundle, previousVersion, initPc,
                 timers>>

UserDecline(c) ==
  /\ c.pc = "prompt"
  /\ onCancel(c)
  /\ last' = [op |-> "declined", cyc |-> c]
  /\ UNCHANGED cmpVars

(***************************************************************************)
(* ApkUpdater, apk_updater.ts.                                             *)
(***************************************************************************)
\* faulty variant of apkPrepareFailed: the catch takes its fileInfo branch
\* and offers to retry the installation
apkPrepareFailedOffersRetry(c) ==
  /\ localStorage' = onOkAfterPerformUpdate(localStorage, c.info)
  /\ cycles' = replace(cycles, c, [c EXCEPT !.pc = "retryDialog"])
  /\ last' = [op |-> "apkDownloadFailed", cyc |-> c]

\* the catch of performUpdate with fileInfo still null (apk_updater.ts:55-70):
\* the failure dialog, then performUpdate() resolves and onOk goes on
apkPrepareFailed(c) ==
  /\ localStorage' = onOkAfterPerformUpdate(localStorage, c.info)
  /\ cycles' = remove(cycles, c)
  /\ last' = [op |-> "apkDownloadFailed", cyc |-> c]

\* CapacitorHttp.get settles; ok is status 200 with data
ApkHttpDone(c, ok) ==
  /\ c.pc = "apkDownloading"
  /\ IF ok
       THEN /\ cycles' = replace(cycles, c, [c EXCEPT !.pc = "apkWriting"])
            /\ last' = [op |-> "apkDownloaded",
                        cyc |-> [c EXCEPT !.pc = "apkWriting"]]
            /\ UNCHANGED localStorage
       ELSE apkPrepareFailed(c)
  /\ UNCHANGED <<platform, activeBundle, previousVersion, initPc, timers>>
  /\ UNCHANGED cmpVars

\* Filesystem.writeFile settles
ApkWriteDone(c, ok) ==
  /\ c.pc = "apkWriting"
  /\ IF ok
       THEN /\ cycles' = replace(cycles, c, [c EXCEPT !.pc = "apkGetUri"])
            /\ last' = [op |-> "apkWritten",
                        cyc |-> [c EXCEPT !.pc = "apkGetUri"]]
            /\ UNCHANGED localStorage
       ELSE apkPrepareFailed(c)
  /\ UNCHANGED <<platform, activeBundle, previousVersion, initPc, timers>>
  /\ UNCHANGED cmpVars

\* the uri Filesystem.getUri gives for 'update.apk' in Directory.Cache,
\* apk_updater.ts:34 and 46-49
ApkFile == <<"cache", "/", "update.apk">>

\* Filesystem.getUri settles; on success launchInstaller up to FileOpener.open
ApkGetUriDone(c, ok) ==
  /\ c.pc = "apkGetUri"
  /\ IF ok
       THEN /\ cycles' = replace(cycles, c,
                 [c EXCEPT !.pc = "apkOpening", !.file = ApkFile])
            /\ last' = [op |-> "apkSaved",
                        cyc |-> [c EXCEPT !.pc = "apkOpening",
                                          !.file = ApkFile]]
            /\ UNCHANGED localStorage
       ELSE apkPrepareFailed(c)
  /\ UNCHANGED <<platform, activeBundle, previousVersion, initPc, timers>>
  /\ UNCHANGED cmpVars

\* faulty variant of launchInstallerSettled: a launched installer is followed
\* by the restart dialog
launchInstallerSettledRestarts(cyc, ok) ==
  IF ok THEN [cyc EXCEPT !.pc = "restartDialog", !.restarts = @ + 1]
  ELSE [cyc EXCEPT !.pc = "retryDialog"]

\* launchInstaller after FileOpener.open settled: the dialog it leaves open
launchInstallerSettled(cyc, ok) ==
  [cyc EXCEPT !.pc = IF ok THEN "installDialog" ELSE "retryDialog"]

\* FileOpener.open settles for the launch performUpdate awaits: launchInstaller
\* resolves either way, performUpdate() resolves and onOk goes on
ApkOpenDone(c, ok) ==
  /\ c.pc = "apkOpening"
  /\ cycles' = replace(cycles, c, launchInstallerSettled(c, ok))
  /\ localStorage' = onOkAfterPerformUpdate(localStorage, c.info)
  /\ last' = [op |-> IF ok THEN "apkLaunched" ELSE "apkLaunchFailed",
              cyc |-> launchInstallerSettled(c, ok)]
  /\ UNCHANGED <<platform, activeBundle, previousVersion, initPc, timers>>
  /\ UNCHANGED cmpVars

\* Ok on the 'APK Installation' dialog: offerRetryInstallation
InstallDialogOk(c) ==
  /\ c.pc = "installDialog"
  /\ cycles' = replace(cycles, c, [c EXCEPT !.pc = "retryDialog"])
  /\ last' = [op |-> "retryOffered", cyc |-> [c EXCEPT !.pc = "retryDialog"]]
  /\ UNCHANGED <<platform, localStorage, activeBundle, previousVersion, initPc,
                 timers>>
  /\ UNCHANGED cmpVars

\* faulty variant of RetryAccept: the retry downloads the package again
RetryAcceptDownloadsAgain(c) ==
  /\ c.pc = "retryDialog"
  /\ cycles' = replace(cycles, c, [c EXCEPT !.pc = "apkDownloading"])
  /\ last' = [op |-> "retryAccepted",
              cyc |-> [c EXCEPT !.pc = "apkDownloading"]]
  /\ UNCHANGED <<platform, localStorage, activeBundle, previousVersion, initPc,
                 timers>>
  /\ UNCHANGED cmpVars

\* Retry on the 'Installation Failed' dialog: launchInstaller up to open
RetryAccept(c) ==
  /\ c.pc = "retryDialog"
  /\ cycles' = replace(cycles, c, [c EXCEPT !.pc = "retryOpening"])
  /\ last' = [op |-> "retryAccepted", cyc |-> [c EXCEPT !.pc = "retryOpening"]]
  /\ UNCHANGED <<platform, localStorage, activeBundle, previousVersion, initPc,
                 timers>>
  /\ UNCHANGED cmpVars

\* Cancel on the 'Installation Failed' dialog
RetryCancel(c) ==
  /\ c.pc = "retryDialog"
  /\ cycles' = remove(cycles, c)
  /\ last' = [op |-> "retryCancelled", cyc |-> c]
  /\ UNCHANGED <<platform, localStorage, activeBundle, previousVersion, initPc,
                 timers>>
  /\ UNCHANGED cmpVars

\* FileOpener.open settles for a launch started from the retry dialog
RetryOpenDone(c, ok) ==
  /\ c.pc = "retryOpening"
  /\ cycles' = replace(cycles, c, launchInstallerSettled(c, ok))
  /\ last' = [op |-> IF ok THEN "retryLaunched" ELSE "retryLaunchFailed",
              cyc |-> launchInstallerSettled(c, ok)]
  /\ UNCHANGED <<platform, localStorage, activeBundle, previousVersion, initPc,
                 timers>>
  /\ UNCHANGED cmpVars

(***************************************************************************)
(* assetsUpdater, web_assets_updater.ts.                                   *)
(***************************************************************************)
\* faulty variant of AssetDownloadDone: a failed download is rolled back
AssetDownloadDoneRollsBack(c, ok) ==
  /\ c.pc = "assetDownloading"
  /\ IF ok
       THEN /\ previousVersion' = assetsGetLocalVersion(localStorage)
            /\ cycles' = replace(cycles, c, [c EXCEPT !.pc = "assetActivating"])
            /\ last' = [op |-> "assetDownloaded",
                        cyc |-> [c EXCEPT !.pc = "assetActivating"]]
       ELSE /\ previousVersion' = assetsGetLocalVersion(localStorage)
            /\ cycles' = replace(cycles, c,
                 [c EXCEPT !.pc = "assetReverting", !.reverts = @ + 1])
            /\ last' = [op |-> "assetDownloadFailed", cyc |-> c]
  /\ UNCHANGED <<platform, localStorage, activeBundle, initPc, timers>>
  /\ UNCHANGED cmpVars

\* CapacitorUpdater.download settles.  On failure downloadUpdate returns null,
\* performUpdate() resolves and onOk goes on; on success performUpdate records
\* previousVersion and applyUpdate runs up to CapacitorUpdater.set
AssetDownloadDone(c, ok) ==
  /\ c.pc = "assetDownloading"
  /\ IF ok
       THEN /\ previousVersion' = assetsGetLocalVersion(localStorage)
            /\ cycles' = replace(cycles, c, [c EXCEPT !.pc = "assetActivating"])
            /\ last' = [op |-> "assetDownloaded",
                        cyc |-> [c EXCEPT !.pc = "assetActivating"]]
            /\ UNCHANGED localStorage
       ELSE /\ localStorage' =
                 onOkAfterPerformUpdate(localStorage, c.info)
            /\ cycles' = remove(cycles, c)
            /\ last' = [op |-> "assetDownloadFailed", cyc |-> c]
            /\ UNCHANGED previousVersion
  /\ UNCHANGED <<platform, activeBundle, initPc, timers>>
  /\ UNCHANGED cmpVars

\* applyUpdate after CapacitorUpdater.set resolved, web_assets_updater.ts:
\* 102-110: the applier's own record, and the dialog whose Ok reloads
applyUpdateSucceeded(cyc) ==
  [cyc EXCEPT !.pc = "restartDialog", !.restarts = @ + 1]

\* CapacitorUpdater.set settles.  On success applyUpdate and performUpdate()
\* resolve and onOk goes on; on failure the catch of applyUpdate calls
\* rollbackUpdate, which runs up to CapacitorUpdater.reset
AssetSetDone(c, ok) ==
  /\ c.pc = "assetActivating"
  /\ IF ok
       THEN /\ activeBundle' = c.info.version
            /\ localStorage' = onOkAfterPerformUpdate(
                 assetsSetLocalVersion(localStorage, c.info.version),
                 c.info)
            /\ cycles' = replace(cycles, c, applyUpdateSucceeded(c))
            /\ last' = [op |-> "assetApplied", cyc |-> applyUpdateSucceeded(c)]
       ELSE IF Falsy(previousVersion)
         THEN /\ localStorage' =
                   onOkAfterPerformUpdate(localStorage, c.info)
              /\ cycles' = remove(cycles, c)
              /\ last' = [op |-> "rollbackSkipped", cyc |-> c]
              /\ UNCHANGED activeBundle
         ELSE /\ cycles' = replace(cycles, c,
                   [c EXCEPT !.pc = "assetReverting", !.reverts = @ + 1])
              /\ last' = [op |-> "activationFailed",
                          cyc |-> [c EXCEPT !.pc = "assetReverting",
                                            !.reverts = @ + 1]]
              /\ UNCHANGED <<localStorage, activeBundle>>
  /\ UNCHANGED <<platform, previousVersion, initPc, timers>>
  /\ UNCHANGED cmpVars

\* faulty variant of rollbackStorage: the previous version is not written
rollbackStorageUnwritten(ls, previous) == ls

\* the store rollbackUpdate leaves after CapacitorUpdater.reset resolved,
\* web_assets_updater.ts:131
rollbackStorage(ls, previous) == assetsSetLocalVersion(ls, previous)

\* faulty variant of rollbackSettled: the restart dialog is raised on both paths
rollbackSettledAlwaysRestarts(cyc, ok) ==
  IF ok THEN [cyc EXCEPT !.pc = "restartDialog", !.restarts = @ + 1]
  ELSE [cyc EXCEPT !.pc = "rollbackFailed", !.restarts = @ + 1]

\* rollbackUpdate after CapacitorUpdater.reset settled: the restart dialog
\* (web_assets_updater.ts:133-140), or the 'Rollback Failed' dialog
rollbackSettled(cyc, ok) ==
  IF ok THEN [cyc EXCEPT !.pc = "restartDialog", !.restarts = @ + 1]
  ELSE [cyc EXCEPT !.pc = "rollbackFailed"]

\* CapacitorUpdater.reset settles: rollbackUpdate, applyUpdate and
\* performUpdate() resolve and onOk goes on.  The failed activation changed
\* no bundle, so the bundle served stays the one the reset restores.
AssetResetDone(c, ok) ==
  /\ c.pc = "assetReverting"
  /\ LET cyc == rollbackSettled(c, ok)
         ls1 == IF ok THEN rollbackStorage(localStorage, previousVersion)
                ELSE localStorage
     IN  /\ localStorage' = onOkAfterPerformUpdate(ls1, c.info)
         /\ cycles' = IF ok THEN replace(cycles, c, cyc) ELSE remove(cycles, c)
         /\ last' = [op |-> IF ok THEN "rolledBack" ELSE "rollbackFailed",
                     cyc |-> cyc]
  /\ UNCHANGED <<platform, activeBundle, previousVersion, initPc, timers>>
  /\ UNCHANGED cmpVars

\* Ok on a restart dialog: window.location.reload().  The page starts over:
\* only the store and the bundle served survive.
RestartOk(c) ==
  /\ c.pc = "restartDialog"
  /\ cycles' = EmptyBag
  /\ previousVersion' = Absent
  /\ initPc' = "created"
  /\ timers' = 0
  /\ last' = [op |-> "reload", cyc |-> c]
  /\ UNCHANGED <<platform, localStorage, activeBundle>>
  /\ UNCHANGED cmpVars

(***************************************************************************)
(* The dialogs the user is shown.                                          *)
(***************************************************************************)
\* the title of the dialog the step op creates, "none" when it creates none
dialogCreated(op) ==
  CASE op = "updateFound" -> "Update Available"
    [] op = "apkDownloadFailed" -> "Update Failed"
    [] op \in {"apkLaunched", "retryLaunched"} -> "APK Installation"
    [] op \in {"apkLaunchFailed", "retryLaunchFailed", "retryOffered"} ->
         "Installation Failed"
    [] op = "assetApplied" -> "Update Successful"
    [] op = "rolledBack" -> "Update Failed"
    [] op = "rollbackFailed" -> "Rollback Failed"
    [] OTHER -> "none"

(***************************************************************************)
(* The engine.                                                             *)
(***************************************************************************)
Next ==
  \/ Initialize
  \/ \E ok \in BOOLEAN : NotifyAppReadyDone(ok)
  \/ TimerTick
  \/ \E c \in InFlight, resp \in Responses : FetchDone(c, resp)
  \/ \E c \in InFlight : UserAccept(c)
  \/ \E c \in InFlight : UserDecline(c)
  \/ \E c \in InFlight, ok \in BOOLEAN : ApkHttpDone(c, ok)
  \/ \E c \in InFlight, ok \in BOOLEAN : ApkWriteDone(c, ok)
  \/ \E c \in InFlight, ok \in BOOLEAN : ApkGetUriDone(c, ok)
  \/ \E c \in InFlight, ok \in BOOLEAN : ApkOpenDone(c, ok)
  \/ \E c \in InFlight : InstallDialogOk(c)
  \/ \E c \in InFlight : RetryAccept(c)
  \/ \E c \in InFlight : RetryCancel(c)
  \/ \E c \in InFlight, ok \in BOOLEAN : RetryOpenDone(c, ok)
  \/ \E c \in InFlight, ok \in BOOLEAN : AssetDownloadDone(c, ok)
  \/ \E c \in InFlight, ok \in BOOLEAN : AssetSetDone(c, ok)
  \/ \E c \in InFlight, ok \in BOOLEAN : AssetResetDone(c, ok)
  \/ \E c \in InFlight : RestartOk(c)

Spec == Init /\ [][Next]_vars

\* the engine with the scheduling setInterval gives: a timer that is armed
\* fires
SpecLive == Spec /\ WF_vars(TimerTick)

(***************************************************************************)
(* The engine under a caller that calls initialize() again, updater.ts:     *)
(* 21-48.  The caller awaits each call, as app.vue does, so a call is made  *)
(* when the one before it has resolved, rejected or returned early.         *)
(***************************************************************************)
\* initialize() called again, up to its await of notifyAppReady(): nothing in
\* initialize() tells a repeated call from the first
InitializeAgain ==
  /\ initPc \in {"running", "failed", "disabled"}
  /\ timers < MaxTimers
  /\ IF ~isAndroidApp
       THEN UNCHANGED <<initPc, localStorage>>
       ELSE /\ initPc' = "notifying"
            /\ localStorage' = initializeVersions(localStorage)
  /\ last' = [op |-> "initialize", cyc |-> NoCycle]
  /\ UNCHANGED <<platform, activeBundle, previousVersion, timers, cycles>>
  /\ UNCHANGED cmpVars

\* fetchUpdateInfo() settles for a check a timer started, while a repeated
\* initialize() awaits a check of its own: as FetchDone, but initialize()
\* goes on waiting
TickFetchDone(c, resp) ==
  /\ c.pc = "fetching"
  /\ initPc = "firstCheck"
  /\ CopiesIn(c, cycles) > 1
  /\ LET r == checkForNewVersion(localStorage, resp)
         cyc == IF r.info # NoInfo /\ isAndroidApp
                  THEN [c EXCEPT !.pc = "prompt", !.info = r.info,
                                 !.start = r.local]
                  ELSE NoCycle
     IN  /\ localStorage' = r.storage
         /\ cycles' = IF cyc = NoCycle THEN remove(cycles, c)
                      ELSE replace(cycles, c, cyc)
         /\ last' = [op |-> checkTrail(resp, r.info), cyc |-> cyc]
  /\ UNCHANGED <<platform, activeBundle, previousVersion, initPc, timers>>
  /\ UNCHANGED cmpVars

\* the caller, the timers, the checks and a user who declines every offer:
\* the appliers take no part in arming a timer
NextAgain ==
  \/ Initialize
  \/ InitializeAgain
  \/ \E ok \in BOOLEAN : NotifyAppReadyDone(ok)
  \/ TimerTick
  \/ \E c \in InFlight, resp \in Responses : FetchDone(c, resp)
  \/ \E c \in InFlight, resp \in Responses : TickFetchDone(c, resp)
  \/ \E c \in InFlight : UserDecline(c)

SpecAgain == Init /\ [][NextAgain]_vars

(***************************************************************************)
(* The entry points called one by one on either platform, each up to its   *)
(* first await: the platform guard each of them starts with.               *)
(***************************************************************************)
\* faulty variant of checkForUpdatesCalled: the platform is not looked at
checkForUpdatesCalledUnguarded ==
  /\ BagCardinality(cycles) < MaxCycles
  /\ cycles' = startCheck(cycles)
  /\ last' = [op |-> "checkCalled", cyc |-> NoCycle]
  /\ UNCHANGED <<platform, localStorage, activeBundle, previousVersion, initPc,
                 timers>>
  /\ UNCHANGED cmpVars

\* Updater.checkForUpdates() up to its await, updater.ts:67-74
checkForUpdatesCalled ==
  /\ BagCardinality(cycles) < MaxCycles
  /\ IF ~isAndroidApp
       THEN /\ UNCHANGED cycles
            /\ last' = [op |-> "checkSkipped", cyc |-> NoCycle]
       ELSE /\ cycles' = startCheck(cycles)
            /\ last' = [op |-> "checkCalled", cyc |-> NoCycle]
  /\ UNCHANGED <<platform, localStorage, activeBundle, previousVersion, initPc,
                 timers>>
  /\ UNCHANGED cmpVars

\* one apply or prompt entered at position pc with the descriptor info
entered(pc, info) == [NoCycle EXCEPT !.pc = pc, !.info = info]

\* Updater.promptForUpdate(updateInfo) up to the dialog, updater.ts:196-209
promptForUpdateCalled(info) ==
  /\ BagCardinality(cycles) < MaxCycles
  /\ IF ~isAndroidApp
       THEN /\ UNCHANGED cycles
            /\ last' = [op |-> "promptSkipped", cyc |-> NoCycle]
       ELSE /\ cycles' = add(cycles, entered("prompt", info))
            /\ last' = [op |-> "promptCalled",
                        cyc |-> entered("prompt", info)]
  /\ UNCHANGED <<platform, localStorage, activeBundle, previousVersion, initPc,
                 timers>>
  /\ UNCHANGED cmpVars

\* ApkUpdater.performUpdate(updateInfo) up to its await of CapacitorHttp.get,
\* apk_updater.ts:13-31
apkPerformUpdateCalled(info) ==
  /\ BagCardinality(cycles) < MaxCycles
  /\ IF ~isAndroidApp
       THEN /\ UNCHANGED cycles
            /\ last' = [op |-> "apkUpdateSkipped", cyc |-> NoCycle]
       ELSE /\ cycles' = add(cycles, entered("apkDownloading", info))
            /\ last' = [op |-> "apkUpdateCalled",
                        cyc |-> entered("apkDownloading", info)]
  /\ UNCHANGED <<platform, localStorage, activeBundle, previousVersion, initPc,
                 timers>>
  /\ UNCHANGED cmpVars

\* assetsUpdater.performUpdate(updateInfo) up to its await of
\* CapacitorUpdater.download, web_assets_updater.ts:49-55 and 66-83
assetsPerformUpdateCalled(info) ==
  /\ BagCardinality(cycles) < MaxCycles
  /\ IF ~isAndroidApp
       THEN /\ UNCHANGED cycles
            /\ last' = [op |-> "assetUpdateSkipped", cyc |-> NoCycle]
       ELSE /\ cycles' = add(cycles, entered("assetDownloading", info))
            /\ last' = [op |-> "assetUpdateCalled",
                        cyc |-> entered("assetDownloading", info)]
  /\ UNCHANGED <<platform, localStorage, activeBundle, previousVersion, initPc,
                 timers>>
  /\ UNCHANGED cmpVars

NextCalls ==
  \/ Initialize
  \/ checkForUpdatesCalled
  \/ \E info \in UpdateInfos : promptForUpdateCalled(info)
  \/ \E info \in UpdateInfos : apkPerformUpdateCalled(info)
  \/ \E info \in UpdateInfos : assetsPerformUpdateCalled(info)

SpecCalls == Init /\ [][NextCalls]_vars

(***************************************************************************)
(* The comparator on its own: isNewerVersion applied to a pair of inputs.  *)
(***************************************************************************)
\* a component of an input: one digit of 0..MaxDigit, "01", "10", or the
\* letter "a", which Number() turns into NaN
Components ==
  {<<DigitChars[d + 1]>> : d \in 0..MaxDigit}
  \cup {<<"0", "1">>, <<"1", "0">>, <<"a">>}

\* the inputs: one, two or three components joined by "."
CmpInputs ==
  Components
  \cup {a \o <<".">> \o b : a \in Components, b \in Components}
  \cup {a \o <<".">> \o b \o <<".">> \o c :
          a \in Components, b \in Components, c \in Components}

CmpInit ==
  /\ cmpRemote \in CmpInputs
  /\ cmpLocal \in CmpInputs
  /\ cmpResult = "unset"
  /\ probe = NoProbe
  /\ platform = "android"
  /\ localStorage = [k \in StorageKeys |-> Absent]
  /\ activeBundle = Baseline
  /\ previousVersion = Absent
  /\ initPc = "created"
  /\ timers = 0
  /\ cycles = EmptyBag
  /\ last = NoStep

CompareVersions ==
  /\ cmpResult = "unset"
  /\ cmpResult' = IF isNewerVersion(cmpRemote, cmpLocal) THEN "true"
                  ELSE "false"
  /\ UNCHANGED <<cmpRemote, cmpLocal, probe>>
  /\ UNCHANGED engineVars

NextCmp == CompareVersions

SpecCmp == CmpInit /\ [][NextCmp]_vars

(***************************************************************************)
(* The store on its own: any sequence of getLocalVersion and               *)
(* updateLocalVersion calls on a store that starts empty.                  *)
(***************************************************************************)
Tracks == {"apk", "assets"}

\* the version strings written: those of the descriptors, and one that is
\* no triplet
StoreVersions == {d.version : d \in UpdateInfos} \cup {<<"2", ".", "a">>}

\* written[t]: the version of the latest updateLocalVersion(t, _), if any;
\* read[t]: getLocalVersion(t) has been called; returned: what the call made
\* last returned
StoreInit ==
  /\ probe = [op |-> "none", track |-> "none", returned |-> Absent,
              written |-> [t \in Tracks |-> Absent],
              read |-> [t \in Tracks |-> FALSE]]
  /\ localStorage = [k \in StorageKeys |-> Absent]
  /\ platform = "android"
  /\ activeBundle = Baseline
  /\ previousVersion = Absent
  /\ initPc = "created"
  /\ timers = 0
  /\ cycles = EmptyBag
  /\ last = NoStep
  /\ cmpRemote = Baseline
  /\ cmpLocal = Baseline
  /\ cmpResult = "unset"

GetVersion(t) ==
  /\ LET r == getLocalVersion(localStorage, t)
     IN  /\ localStorage' = r.storage
         /\ probe' = [probe EXCEPT !.op = "get", !.track = t,
                                   !.returned = r.version, !.read[t] = TRUE]
  /\ UNCHANGED <<platform, activeBundle, previousVersion, initPc, timers,
                 cycles, last, cmpRemote, cmpLocal, cmpResult>>

SetVersion(t, v) ==
  /\ localStorage' = updateLocalVersion(localStorage, t, v)
  /\ probe' = [probe EXCEPT !.op = "set", !.track = t, !.returned = Absent,
                            !.written[t] = v]
  /\ UNCHANGED <<platform, activeBundle, previousVersion, initPc, timers,
                 cycles, last, cmpRemote, cmpLocal, cmpResult>>

NextStore ==
  \/ \E t \in Tracks : GetVersion(t)
  \/ \E t \in Tracks, v \in StoreVersions : SetVersion(t, v)

SpecStore == StoreInit /\ [][NextStore]_vars

(***************************************************************************)
(* The checker on its own: checkForNewVersion applied once to a response,  *)
(* on a store whose records are absent or hold a version.                  *)
(***************************************************************************)
\* the responses of the engine, and the arrays of two descriptors
CheckResponses ==
  Responses
  \cup {[kind |-> "array", items |-> <<d, e>>] :
          d \in UpdateInfos, e \in UpdateInfos}

\* the stores a check can find: each of Updater's records absent, the
\* baseline, or the first newer version
CheckStores ==
  LET held == {Absent, Baseline, <<"1", ".", "0", ".", "1">>}
  IN  {[k \in StorageKeys |->
          IF k = "apkVersion" THEN a ELSE IF k = "assetsVersion" THEN b
          ELSE Absent] : a \in held, b \in held}

\* resp: what the request gives; before: the store the call found; info:
\* the descriptor returned
CheckInit ==
  /\ localStorage \in CheckStores
  /\ \E resp \in CheckResponses :
       probe = [op |-> "none", resp |-> resp, before |-> localStorage,
                info |-> NoInfo]
  /\ platform = "android"
  /\ activeBundle = Baseline
  /\ previousVersion = Absent
  /\ initPc = "created"
  /\ timers = 0
  /\ cycles = EmptyBag
  /\ last = NoStep
  /\ cmpRemote = Baseline
  /\ cmpLocal = Baseline
  /\ cmpResult = "unset"

Check ==
  /\ probe.op = "none"
  /\ LET r == checkForNewVersion(localStorage, probe.resp)
     IN  /\ localStorage' = r.storage
         /\ probe' = [probe EXCEPT !.op = "check", !.info = r.info]
  /\ UNCHANGED <<platform, activeBundle, previousVersion, initPc, timers,
                 cycles, last, cmpRemote, cmpLocal, cmpResult>>

NextCheck == Check

SpecCheck == CheckInit /\ [][NextCheck]_vars

(***************************************************************************)
(* Claims about the engine, checked under Spec.                            *)
(***************************************************************************)
\* the bundle-track and package-track records as the checker reads them
getVersion(updateType) == getLocalVersion(localStorage, updateType).version

\* the steps that end an accepted cycle in failure
FailedOps ==
  {"apkDownloadFailed", "apkLaunchFailed", "assetDownloadFailed",
   "rollbackSkipped", "rolledBack", "rollbackFailed"}

\* the positions of a sequence the coordinator has not finished
CoordinatorPcs ==
  {"fetching", "prompt", "apkDownloading", "apkWriting", "apkGetUri",
   "apkOpening", "assetDownloading", "assetActivating", "assetReverting"}

\* C1: after an accepted cycle has ended in failure, the record of the
\* descriptor's track equals its value from before the cycle began.
C1_FailedCycleKeepsRecord ==
  last.op \in FailedOps => getVersion(last.cyc.info.updateType) = last.cyc.start

\* C2: at most one check/consent/apply sequence is in flight; a trigger that
\* arrives while one is outstanding starts no other.
C2_AtMostOneSequenceInFlight ==
  LET busy == {c \in InFlight : c.pc \in CoordinatorPcs}
  IN  BagCardinality([c \in busy |-> cycles[c]]) <= 1

\* C3: the bundle-track record is never newer than the bundle actually active.
C3_RecordNotAheadOfActiveBundle ==
  ~isNewerVersion(getVersion("assets"), activeBundle)

\* C4: when a newer bundle descriptor has been accepted and its download and
\* activation have both succeeded, the bundle-track record equals the
\* descriptor's version.
C4_AppliedBundleIsRecorded ==
  last.op = "assetApplied" => getVersion("assets") = last.cyc.info.version

\* C4 witness: a bundle newer than the record it was checked against has just
\* been applied and recorded.
C4_Witness ==
  /\ last.op = "assetApplied"
  /\ isNewerVersion(last.cyc.info.version, last.cyc.start)
  /\ localStorage["assetsVersion"] = last.cyc.info.version
  /\ activeBundle = last.cyc.info.version

\* C5: right after a rollback whose revert succeeded, the bundle-track record
\* the checker reads is the version captured as previous, and previous is the
\* record's value from before the apply started.
C5_RollbackRestoresBundleRecord ==
  [][last'.op = "rolledBack" =>
       /\ getLocalVersion(rollbackStorage(localStorage, previousVersion),
                          "assets").version = previousVersion
       /\ previousVersion = last'.cyc.start]_vars

\* C6 as claimed: after a failed activation the revert primitive has been
\* invoked exactly once and the restart signaled exactly once.
C6_RevertOnceRestartOnce ==
  last.op \in {"rollbackSkipped", "rolledBack", "rollbackFailed"} =>
    last.cyc.reverts = 1 /\ last.cyc.restarts = 1

\* C6 amended: after a failed activation the revert primitive is invoked
\* exactly once; the restart is signaled exactly once when the revert
\* succeeded and not at all when it failed.
C6_RevertOnceRestartIffReverted ==
  /\ last.op # "rollbackSkipped"
  /\ last.op = "activationFailed" =>
       last.cyc.reverts = 1 /\ last.cyc.restarts = 0
  /\ last.op = "rolledBack" => last.cyc.reverts = 1 /\ last.cyc.restarts = 1
  /\ last.op = "rollbackFailed" => last.cyc.reverts = 1 /\ last.cyc.restarts = 0
  /\ \A c \in InFlight : c.reverts <= 1 /\ c.restarts <= 1

\* C6 witness: an activation failed, the revert succeeded and the restart
\* dialog is up.
C6_Witness ==
  /\ last.op = "rolledBack"
  /\ last.cyc.pc = "restartDialog"
  /\ last.cyc.reverts = 1
  /\ last.cyc.restarts = 1

\* C7: declining the consent prompt ends the cycle and changes nothing else:
\* neither record, no bundle, no other sequence, no timer.
C7_DeclineChangesNothing ==
  [][last'.op = "declined" =>
       /\ last'.cyc.pc = "prompt"
       /\ cycles' = remove(cycles, last'.cyc)
       /\ UNCHANGED <<localStorage, activeBundle, previousVersion, initPc,
                      timers, platform>>]_vars

\* C7 witness: a prompt for a newer version has just been declined.
C7_Witness ==
  /\ last.op = "declined"
  /\ isNewerVersion(last.cyc.info.version, last.cyc.start)
  /\ getVersion(last.cyc.info.updateType) = last.cyc.start

\* C14: when the request fails, its response has no data or its data is an
\* empty array, the check ends without a descriptor and without raising:
\* no consent prompt is opened, no record of the store and nothing else is
\* changed, and the initialization that awaits the check goes on.
C14_FailedFetchFindsNothing ==
  [][last'.op \in {"checkFailed", "noData"} =>
       /\ last'.cyc = NoCycle
       /\ \E c \in InFlight :
            c.pc = "fetching" /\ cycles' = remove(cycles, c)
       /\ UNCHANGED <<localStorage, activeBundle, previousVersion>>
       /\ initPc' # "failed"]_vars

\* C14 witness: a check has just failed while the bundle-track record holds
\* a version other than the baseline, and no prompt is open.
C14_Witness ==
  /\ last.op = "checkFailed"
  /\ localStorage["assetsVersion"] # Baseline
  /\ \A c \in InFlight : c.pc # "prompt"

\* C15: no operation of the engine rejects to its caller, whichever
\* collaborator call fails: initialize, the periodic check, the check, both
\* performUpdate and the rollback all resolve.
C15_NoOperationRejects ==
  initPc # "failed" /\ last.op # "initializeRejected"

\* the positions inside ApkUpdater and the steps it takes
ApkPcs ==
  {"apkDownloading", "apkWriting", "apkGetUri", "apkOpening", "installDialog",
   "retryDialog", "retryOpening"}

ApkOps ==
  {"apkDownloaded", "apkWritten", "apkSaved", "apkDownloadFailed",
   "apkLaunched", "apkLaunchFailed", "retryOffered", "retryAccepted",
   "retryCancelled", "retryLaunched", "retryLaunchFailed"}

\* the positions inside assetsUpdater and the steps it takes
AssetPcs ==
  {"assetDownloading", "assetActivating", "assetReverting", "restartDialog"}

AssetOps ==
  {"assetDownloaded", "assetDownloadFailed", "assetApplied",
   "activationFailed", "rollbackSkipped", "rolledBack", "rollbackFailed",
   "reload"}

\* C16: an accepted descriptor is handed to exactly one applier, chosen by
\* its track: a package descriptor only ever goes through the steps of
\* ApkUpdater, a bundle descriptor only through those of assetsUpdater.
C16_OneApplierByTrack ==
  /\ last.op = "accepted" =>
       last.cyc.pc = IF last.cyc.info.updateType = "apk"
                       THEN "apkDownloading" ELSE "assetDownloading"
  /\ last.op \in ApkOps => last.cyc.info.updateType = "apk"
  /\ last.op \in AssetOps => last.cyc.info.updateType = "assets"
  /\ \A c \in InFlight :
       /\ c.pc \in ApkPcs => c.info.updateType = "apk"
       /\ c.pc \in AssetPcs => c.info.updateType = "assets"

\* C16 witness: a package descriptor has just been accepted and its download
\* started while a bundle descriptor is inside assetsUpdater.
C16_Witness ==
  /\ last.op = "accepted"
  /\ last.cyc.info.updateType = "apk"
  /\ last.cyc.pc = "apkDownloading"
  /\ \E c \in InFlight : c.pc \in AssetPcs /\ c.info.updateType = "assets"

\* C17: when the package artifact cannot be retrieved (the request fails or
\* answers without status 200 and data, the cache write or the lookup of the
\* written file fails) the apply ends with the failure dialog: the installer
\* has not been and is not launched for it, and no retry is offered.
C17_FailedDownloadEndsPackageApply ==
  [][last'.op = "apkDownloadFailed" =>
       /\ last'.cyc \in InFlight
       /\ last'.cyc.pc \in {"apkDownloading", "apkWriting", "apkGetUri"}
       /\ cycles' = remove(cycles, last'.cyc)
       /\ dialogCreated(last'.op) = "Update Failed"]_vars

\* C17 witness: the cache write of a downloaded package artifact has just
\* failed, and no installer launch or retry offer is open.
C17_Witness ==
  /\ last.op = "apkDownloadFailed"
  /\ last.cyc.pc = "apkWriting"
  /\ \A c \in InFlight :
       c.pc \notin {"apkOpening", "installDialog", "retryDialog",
                    "retryOpening"}

\* C18: when the download of a bundle fails assetsUpdater does nothing more
\* for it: no activation and no revert is called, the applier writes no
\* version (the store changes by the coordinator's write alone), and no
\* restart dialog is raised.
C18_FailedBundleDownloadEndsApply ==
  [][last'.op = "assetDownloadFailed" =>
       /\ last'.cyc \in InFlight
       /\ last'.cyc.pc = "assetDownloading"
       /\ last'.cyc.reverts = 0 /\ last'.cyc.restarts = 0
       /\ cycles' = remove(cycles, last'.cyc)
       /\ localStorage' = updateLocalVersion(localStorage, "assets",
                                             last'.cyc.info.version)
       /\ localStorage'["appVersion"] = localStorage["appVersion"]
       /\ UNCHANGED <<activeBundle, previousVersion>>]_vars

\* C18 witness: the download of a bundle newer than the one served has just
\* failed; the bundle served is the one from before and no restart dialog is
\* open.
C18_Witness ==
  /\ last.op = "assetDownloadFailed"
  /\ isNewerVersion(last.cyc.info.version, activeBundle)
  /\ localStorage["appVersion"] = Absent
  /\ \A c \in InFlight : c.pc \notin {"assetReverting", "restartDialog"}

\* C19: a download that fails, on the package track or on the bundle track,
\* ends with a failure dialog shown to the user.
C19_DownloadFailureIsNotified ==
  last.op \in {"apkDownloadFailed", "assetDownloadFailed"} =>
    dialogCreated(last.op) = "Update Failed"

\* C20: a rollback first calls the revert primitive, and when that has
\* succeeded writes the previous version as the applier's record and then
\* raises the restart dialog; when the revert fails the rollback writes no
\* version (the store changes by the coordinator's write alone), raises no
\* restart dialog, calls nothing more and shows the 'Rollback Failed' dialog.
C20_RollbackOrderAndFatalRevert ==
  [][last'.op \in {"rolledBack", "rollbackFailed"} =>
       \E c \in InFlight :
         /\ c.pc = "assetReverting" /\ c.reverts = 1 /\ c.restarts = 0
         /\ c.info = last'.cyc.info /\ last'.cyc.reverts = 1
         /\ UNCHANGED <<activeBundle, previousVersion>>
         /\ IF last'.op = "rolledBack"
              THEN /\ localStorage'["appVersion"] = previousVersion
                   /\ last'.cyc.pc = "restartDialog"
                   /\ last'.cyc.restarts = 1
                   /\ cycles' = replace(cycles, c, last'.cyc)
                   /\ dialogCreated(last'.op) = "Update Failed"
              ELSE /\ localStorage' = updateLocalVersion(localStorage, "assets",
                                                         c.info.version)
                   /\ localStorage'["appVersion"] = localStorage["appVersion"]
                   /\ last'.cyc.restarts = 0
                   /\ cycles' = remove(cycles, c)
                   /\ dialogCreated(last'.op) = "Rollback Failed"]_vars

\* C20 witness: an activation failed and the revert failed too: the
\* applier's record is still unwritten and no restart dialog is open.
C20_Witness ==
  /\ last.op = "rollbackFailed"
  /\ last.cyc.reverts = 1 /\ last.cyc.restarts = 0
  /\ localStorage["appVersion"] = Absent
  /\ \A c \in InFlight : c.pc \notin {"assetReverting", "restartDialog"}

\* the positions of ApkUpdater at which fileInfo has been set
LaunchPcs == {"apkOpening", "installDialog", "retryDialog", "retryOpening"}

\* C21: once the package has been downloaded and saved, a retry calls the
\* installer on the file already saved and no download is requested again;
\* the installer is launched again only by Retry on the retry dialog.
C21_RetryReusesArtifact ==
  /\ \A c \in InFlight :
       /\ c.pc \in LaunchPcs => c.file = ApkFile
       /\ c.pc \in {"apkDownloading", "apkWriting", "apkGetUri"} =>
            c.file = Absent
  /\ last.cyc.pc = "apkDownloading" =>
       last.op \in {"accepted", "apkDownloadFailed"}
  /\ last.cyc.pc = "retryOpening" => last.op = "retryAccepted"
  /\ last.op = "retryAccepted" =>
       last.cyc.pc = "retryOpening" /\ last.cyc.file = ApkFile

\* C21 witness: after a launch that failed, Retry has been chosen and the
\* installer is being opened on the saved file.
C21_Witness ==
  /\ last.op = "retryAccepted"
  /\ last.cyc.pc = "retryOpening"
  /\ last.cyc.file = ApkFile
  /\ last.cyc \in InFlight

\* C22: the package-track record is advanced to the descriptor's version
\* exactly when the installer has been launched successfully: a successful
\* launch leaves the record at that version, and no other step changes a
\* record that exists.
C22_PackageRecordAdvancedOnLaunchOnly ==
  [][/\ last'.op \in {"apkLaunched", "retryLaunched"} =>
          localStorage'["apkVersion"] = last'.cyc.info.version
     /\ (/\ localStorage["apkVersion"] # Absent
         /\ localStorage'["apkVersion"] # localStorage["apkVersion"]) =>
          last'.op \in {"apkLaunched", "retryLaunched"}]_vars

\* C23: a timer tick starts a check only when the cycle of an earlier tick
\* has ended.  The timer is armed when the check initialize() awaits has
\* settled, so a check still awaiting its response when a tick fires was
\* started by an earlier tick.
C23_TickWaitsForEarlierTick ==
  [][last'.op = "timerTick" => \A c \in InFlight : c.pc # "fetching"]_vars

\* the positions at which a cycle awaits a remote check, a download or save,
\* an activation or revert, or an installer launch
AwaitPcs ==
  {"fetching", "apkDownloading", "apkWriting", "apkGetUri", "apkOpening",
   "retryOpening", "assetDownloading", "assetActivating", "assetReverting"}

\* the steps in which the awaited call of an apply has fully succeeded
SucceededOps == {"apkLaunched", "assetApplied"}

\* the records of the version store
RecordKeys == {versionKey(t) : t \in Tracks}

\* C24: a process that ends while a step is in flight finds every record as
\* it was when that step was started: no record changes while a cycle stays
\* at an awaiting position, and a record that exists changes only in a step
\* whose awaited call has fully succeeded.
C24_RecordsKeptWhileStepInFlight ==
  [][\A k \in RecordKeys :
       (localStorage[k] # Absent /\ localStorage'[k] # localStorage[k]) =>
         /\ last'.op \in SucceededOps
         /\ ~\E c \in InFlight :
               c.pc \in AwaitPcs /\ c \in BagToSet(cycles')]_vars

\* C25: the page is reloaded only from the dialog of a bundle that has been
\* activated or of a rollback whose revert succeeded, and only those two
\* steps raise that dialog: a failed bundle download, a failed revert, a
\* step of the package track and a declined prompt raise none.
C25_RestartOnlyAfterActivationOrRollback ==
  /\ last.op = "reload" =>
       /\ last.cyc.pc = "restartDialog"
       /\ last.cyc.info.updateType = "assets"
       /\ last.cyc.restarts = 1
  /\ last.cyc.pc = "restartDialog" =>
       last.op \in {"assetApplied", "rolledBack", "reload"}
  /\ last.op \in ApkOps \cup {"assetDownloadFailed", "rollbackFailed",
                              "declined"} =>
       last.cyc.restarts = 0 /\ last.cyc.pc # "restartDialog"
  /\ \A c \in InFlight :
       /\ c.restarts = IF c.pc = "restartDialog" THEN 1 ELSE 0
       /\ c.pc = "restartDialog" => c.info.updateType = "assets"

\* C25 witness: the page has just been reloaded from the dialog of a
\* rollback whose revert succeeded.
C25_Witness ==
  /\ last.op = "reload"
  /\ last.cyc.reverts = 1
  /\ last.cyc.restarts = 1
  /\ initPc = "created"

\* C26: at startup notifyAppReady is called once, when both records have
\* been bootstrapped and before any check is issued or the timer armed: it is
\* awaited only in the step that follows initialize()'s bootstrap, and the
\* first check starts in the step in which it resolves.
C26_NotifyReadyOnceBeforeFirstCheck ==
  /\ initPc = "notifying" =>
       /\ last.op = "initialize"
       /\ \A k \in RecordKeys : localStorage[k] # Absent
  /\ initPc \in {"created", "notifying", "failed", "disabled"} =>
       cycles = EmptyBag /\ timers = 0
  /\ last.op = "notifyAppReady" =>
       /\ initPc = "firstCheck"
       /\ cycles = SetToBag({[NoCycle EXCEPT !.pc = "fetching"]})
       /\ timers = 0
  /\ initPc = "firstCheck" => timers = 0 /\ BagCardinality(cycles) = 1
  /\ timers <= 1

\* C26 witness: after a reload that follows an applied bundle, the restarted
\* engine has bootstrapped nothing anew and awaits notifyAppReady.
C26_Witness ==
  /\ initPc = "notifying"
  /\ localStorage["assetsVersion"] # Baseline
  /\ localStorage["apkVersion"] = Baseline
  /\ cycles = EmptyBag /\ timers = 0

\* a check has just failed in an engine whose initialize() has completed
FailedCheckSettled == last.op = "checkFailed" /\ initPc = "running"

\* C27: a failed check does not stop the periodic checking: after it the
\* timer is still armed and, unless the page is reloaded first, a tick
\* follows; every tick issues a new request, and a request answered with a
\* newer descriptor opens the consent prompt.
C27_FailedCheckKeepsChecking ==
  /\ [](FailedCheckSettled => timers > 0)
  /\ FailedCheckSettled ~> (last.op \in {"timerTick", "reload"})
  /\ [](last.op = "timerTick" => \E c \in InFlight : c.pc = "fetching")
  /\ [](last.op = "updateFound" =>
          last.cyc.pc = "prompt" /\ last.cyc \in InFlight)

\* C27 witness: a check has just failed while the timer is armed and the
\* prompt of another check is open.
C27_Witness ==
  /\ FailedCheckSettled
  /\ timers = 1
  /\ \E c \in InFlight : c.pc = "prompt"

\* C29: under every interleaving of ticks, responses and answers to prompts
\* the record of a track never moves from a version to an older one.
C29_RecordWritesAreMonotonic ==
  [][\A k \in RecordKeys :
       ~isNewerVersion(localStorage[k], localStorage'[k])]_vars

\* C30: when an accepted cycle for a descriptor has ended in failure, a
\* check that is served the same descriptor again returns it, so that the
\* user is prompted again.
C30_FailedUpdateIsOfferedAgain ==
  last.op \in FailedOps =>
    checkForNewVersion(localStorage,
                       [kind |-> "object", items |-> <<last.cyc.info>>]).info
      = last.cyc.info

\* C31: the coordinator writes no record of the package track while a retry
\* offer of the applier is unanswered: a step that leaves an 'Installation
\* Failed' dialog open on a cycle leaves the package record as it was.
C31_NoRecordWriteWhileRetryUnanswered ==
  [][(\E c \in BagToSet(cycles') : c.pc = "retryDialog") =>
       localStorage'[versionKey("apk")] = localStorage[versionKey("apk")]]_vars

\* C32: when the page is reloaded from the dialog of an activated bundle, the
\* record of the bundle track equals the version of the activated descriptor:
\* the coordinator's write precedes the restart.
C32_RecordWrittenBeforeRestart ==
  (/\ last.op = "reload"
   /\ last.cyc.info.updateType = "assets"
   /\ last.cyc.reverts = 0) =>
    localStorage[versionKey("assets")] = last.cyc.info.version

\* the steps in which a check ends without a descriptor to offer
NothingFoundOps == {"noUpdate", "noData", "checkFailed"}

\* C33: the tracks are keyed consistently and independently: the record a
\* check compares a descriptor with is the record of the descriptor's track,
\* the record a cycle writes is that same record, set to the descriptor's
\* version, no step of a cycle changes the record of the other track, and a
\* check that offers nothing changes no record.
C33_TracksKeyedAlikeAndIndependent ==
  [][/\ \A t \in Tracks :
          last'.cyc.info.updateType = t =>
            /\ \A u \in Tracks \ {t} :
                 localStorage'[versionKey(u)] = localStorage[versionKey(u)]
            /\ last'.op = "updateFound" =>
                 last'.cyc.start = localStorage[versionKey(t)]
            /\ localStorage'[versionKey(t)] # localStorage[versionKey(t)] =>
                 localStorage'[versionKey(t)] = last'.cyc.info.version
     /\ last'.op \in NothingFoundOps =>
          \A t \in Tracks :
            localStorage'[versionKey(t)] = localStorage[versionKey(t)]]_vars

\* C33 witness: a bundle cycle has written its own record, checked against
\* the baseline, and left alone the package record an earlier package cycle
\* had advanced.
C33_Witness ==
  /\ last.op = "assetApplied"
  /\ last.cyc.start = Baseline
  /\ localStorage[versionKey("assets")] = last.cyc.info.version
  /\ last.cyc.info.version # Baseline
  /\ localStorage[versionKey("apk")] = <<"1", ".", "0", ".", "1">>

\* C34: whenever no cycle is in flight, the version the asset applier keeps
\* for itself and the bundle-track record the coordinator keeps are the same
\* version.
C34_ApplierAndCoordinatorAgree ==
  cycles = EmptyBag =>
    assetsGetLocalVersion(localStorage) =
      getLocalVersion(localStorage, "assets").version

\* C35: at most one periodic timer is armed at any time, however often
\* initialize() is called.
C35_AtMostOneTimer == timers <= 1

\* C36: on a platform other than Android, initialize(), checkForUpdates(),
\* promptForUpdate() and performUpdate() of both appliers do nothing: no
\* check, prompt, download, activation, revert or installer launch is in
\* flight, notifyAppReady is not awaited, no timer is armed and the store
\* and the bundle served are as they were at the start.
C36_EntryPointsDoNothingOffAndroid ==
  ~isAndroidApp =>
    /\ cycles = EmptyBag
    /\ timers = 0
    /\ initPc \in {"created", "disabled"}
    /\ localStorage = [k \in StorageKeys |-> Absent]
    /\ activeBundle = Baseline
    /\ previousVersion = Absent
    /\ last.cyc = NoCycle

\* C36 witness: on the web platform initialize() has returned early and an
\* applier has been called after it.
C36_Witness ==
  /\ platform = "web"
  /\ initPc = "disabled"
  /\ last.op \in {"apkUpdateSkipped", "assetUpdateSkipped"}

(***************************************************************************)
(* Claims about the comparator, checked under SpecCmp.                     *)
(***************************************************************************)
\* a non-empty string of digits
IsNumeral(t) == t # <<>> /\ \A i \in DOMAIN t : IsDigit(t[i])

\* s is n integers separated by "."
IsIntegerVersion(s, n) ==
  LET p == split(s)
  IN  Len(p) = n /\ \A i \in DOMAIN p : IsNumeral(p[i])

IsTriplet(s) == IsIntegerVersion(s, 3)

\* the integer triple s denotes, a missing trailing component counting as 0
TripleOf(s) ==
  LET p == split(s)
  IN  [i \in 1..3 |-> IF i <= Len(p) THEN DecimalValue(p[i]) ELSE 0]

\* strict lexicographic order on integer triples
LexGreater(x, y) ==
  \/ x[1] > y[1]
  \/ x[1] = y[1] /\ x[2] > y[2]
  \/ x[1] = y[1] /\ x[2] = y[2] /\ x[3] > y[3]

Compared == cmpResult # "unset"

Forward == cmpResult = "true"

Backward == isNewerVersion(cmpLocal, cmpRemote)

\* C8 as claimed: on valid triplets isNewer(a, a) is false, and when the
\* strings a and b differ exactly one of isNewer(a, b), isNewer(b, a) is true.
C8_AntisymmetricOnStrings ==
  (Compared /\ IsTriplet(cmpRemote) /\ IsTriplet(cmpLocal)) =>
    IF cmpRemote = cmpLocal THEN ~Forward ELSE Forward # Backward

\* C8 amended: on valid triplets, when a and b denote the same integer
\* triple (a = b, or they differ only in leading zeros) neither is newer than
\* the other, and when they denote different triples exactly one of
\* isNewer(a, b), isNewer(b, a) is true.
C8_AntisymmetricOnTriples ==
  (Compared /\ IsTriplet(cmpRemote) /\ IsTriplet(cmpLocal)) =>
    IF TripleOf(cmpRemote) = TripleOf(cmpLocal)
      THEN ~Forward /\ ~Backward
      ELSE Forward # Backward

\* C8 witness: two triplets that denote different triples, the remote newer
\* and the local not.
C8_Witness ==
  /\ Compared /\ IsTriplet(cmpRemote) /\ IsTriplet(cmpLocal)
  /\ TripleOf(cmpRemote) # TripleOf(cmpLocal)
  /\ Forward /\ ~Backward

\* C9: on strings of three integers isNewer(remote, local) is the strict
\* lexicographic comparison of the integer triples.
C9_LexicographicOnTriplets ==
  (Compared /\ IsTriplet(cmpRemote) /\ IsTriplet(cmpLocal)) =>
    (Forward <=> LexGreater(TripleOf(cmpRemote), TripleOf(cmpLocal)))

\* C9 witness: two triplets equal in components 0 and 1, decided by
\* component 2, a two-digit number against a larger digit included.
C9_Witness ==
  /\ Compared /\ IsTriplet(cmpRemote) /\ IsTriplet(cmpLocal)
  /\ TripleOf(cmpRemote)[1] = TripleOf(cmpLocal)[1]
  /\ TripleOf(cmpRemote)[2] = TripleOf(cmpLocal)[2]
  /\ TripleOf(cmpRemote)[3] = 10
  /\ TripleOf(cmpLocal)[3] = 2
  /\ Forward

\* C10: on strings of one, two or three integers isNewer(remote, local) is
\* the lexicographic comparison of the zero-padded triples.
C10_MissingComponentsCountAsZero ==
  (/\ Compared
   /\ \E n \in 1..3 : IsIntegerVersion(cmpRemote, n)
   /\ \E n \in 1..3 : IsIntegerVersion(cmpLocal, n)) =>
    (Forward <=> LexGreater(TripleOf(cmpRemote), TripleOf(cmpLocal)))

\* component i (counted from 0) of s is there and is not an integer
MalformedAt(s, i) ==
  LET p == split(s) IN i + 1 <= Len(p) /\ ~IsNumeral(p[i + 1])

\* a and b both have an integer at position j, and the same one
EqualAt(a, b, j) ==
  LET p == split(a)
      q == split(b)
  IN  /\ j + 1 <= Len(p) /\ IsNumeral(p[j + 1])
      /\ j + 1 <= Len(q) /\ IsNumeral(q[j + 1])
      /\ DecimalValue(p[j + 1]) = DecimalValue(q[j + 1])

\* one of the first three positions is reached by the comparison (all the
\* positions before it hold equal integers) and a or b is malformed there
MalformedAtComparedPosition(a, b) ==
  \E i \in 0..2 :
    /\ \A j \in 0..(i - 1) : EqualAt(a, b, j)
    /\ MalformedAt(a, i) \/ MalformedAt(b, i)

\* the descriptor a check returns when the remote serves version remote for
\* the bundle track and the bundle-track record is local
checkOutcome(remote, local) ==
  checkForNewVersion(updateLocalVersion(localStorage, "assets", local),
                     [kind |-> "object",
                      items |-> <<UpdateInfo(remote, "assets")>>]).info

\* C11: when a compared position of either version string holds a component
\* that is not an integer, isNewer returns false and the check cycle ends
\* with no update found.
C11_MalformedIsNeverNewer ==
  (Compared /\ MalformedAtComparedPosition(cmpRemote, cmpLocal)) =>
    ~Forward /\ checkOutcome(cmpRemote, cmpLocal) = NoInfo

(***************************************************************************)
(* Claims about the store, checked under SpecStore.                        *)
(***************************************************************************)
\* C12: getVersion(t) returns the baseline when no setVersion(t, _) has
\* happened and otherwise the version of the latest setVersion(t, v); a read
\* of a track that has been read before leaves the store as it is, and a
\* read right after a read of the same track returns the same value.
C12_StoreReadsLatestWrite ==
  [][probe'.op = "get" =>
       LET t == probe'.track
       IN  /\ probe'.returned = IF probe.written[t] = Absent THEN Baseline
                                 ELSE probe.written[t]
           /\ probe.read[t] => localStorage' = localStorage
           /\ (probe.op = "get" /\ probe.track = t) =>
                probe'.returned = probe.returned]_vars

\* C12 witness: the bundle-track record is read back after a write of a
\* version other than the baseline, the package track never written and read
\* as the baseline.
C12_Witness ==
  /\ probe.op = "get" /\ probe.track = "assets"
  /\ probe.written["assets"] \notin {Absent, Baseline}
  /\ probe.returned = probe.written["assets"]
  /\ probe.written["apk"] = Absent /\ probe.read["apk"]
  /\ localStorage["apkVersion"] = Baseline

(***************************************************************************)
(* Claims about the checker, checked under SpecCheck.                      *)
(***************************************************************************)
\* the response carries at least one descriptor
CarriesDescriptor(resp) ==
  ~requestThrew(resp) /\ ~dataMissing(resp)

\* C13: a check of a response that carries a descriptor evaluates the first
\* element of an array, or the object itself, and nothing else: it returns
\* that descriptor, every field as received, exactly when its version is
\* newer than the record of its track, and null otherwise.
C13_CheckReturnsFirstDescriptorIffNewer ==
  (probe.op = "check" /\ CarriesDescriptor(probe.resp)) =>
    LET d == probe.resp.items[1]
        local == getLocalVersion(probe.before, d.updateType).version
    IN  probe.info = IF isNewerVersion(d.version, local) THEN d ELSE NoInfo

\* C13 witness: an array of two descriptors of which the second is newer
\* than the first; the first is newer than the record and is returned.
C13_Witness ==
  /\ probe.op = "check"
  /\ probe.resp.kind = "array" /\ Len(probe.resp.items) = 2
  /\ isNewerVersion(probe.resp.items[2].version, probe.resp.items[1].version)
  /\ probe.info = probe.resp.items[1]
  /\ probe.info.url = probe.resp.items[1].url

\* C28: a check changes no record that exists.  The only write it may make
\* is the baseline into an absent record of the track of the descriptor it
\* evaluates; when that descriptor is not newer than the record it returns
\* null.
C28_CheckKeepsExistingRecords ==
  probe.op = "check" =>
    /\ \A k \in StorageKeys :
         \/ localStorage[k] = probe.before[k]
         \/ /\ CarriesDescriptor(probe.resp)
            /\ k = versionKey(probe.resp.items[1].updateType)
            /\ probe.before[k] = Absent
            /\ localStorage[k] = Baseline
    /\ (/\ CarriesDescriptor(probe.resp)
        /\ ~isNewerVersion(probe.resp.items[1].version,
                           getLocalVersion(probe.before,
                             probe.resp.items[1].updateType).version)) =>
         probe.info = NoInfo

\* C28 witness: the package record and the remote package version are both
\* 1.0.1: the check returns null, the package record is as before and the
\* absent bundle record is still absent.
C28_Witness ==
  /\ probe.op = "check"
  /\ CarriesDescriptor(probe.resp)
  /\ probe.resp.items[1].updateType = "apk"
  /\ probe.resp.items[1].version = <<"1", ".", "0", ".", "1">>
  /\ probe.before["apkVersion"] = <<"1", ".", "0", ".", "1">>
  /\ probe.before["assetsVersion"] = Absent
  /\ probe.info = NoInfo
  /\ localStorage = probe.before

====
